---- MODULE Spec2Model ----
(***************************************************************************)
(* Model of the post-recognition cleanup pipeline of                       *)
(* server/scripts/transcribe_audio.py (function transcribe_audio).         *)
(*                                                                         *)
(* A Python str is a sequence of one-character strings.  The two Arabic    *)
(* punctuation marks are written "U+060C" (comma) and "U+061B" (semicolon).*)
(*                                                                         *)
(* Three specifications share the module:                                  *)
(*   Spec       one run of transcribe_audio over a lazy segment stream     *)
(*   SpecNorm   the three re.sub rewrites (lines 306-308) on any string    *)
(*   SpecDedup  the phrase loop (lines 311-332) on any word sequence       *)
(***************************************************************************)
EXTENDS Integers, Sequences, FiniteSets, TLC

VARIABLES
    pc,                 \* position of the run: Start, Running, Completed, Failed
    stream,             \* segments the engine has yielded so far (history)
    full_text,          \* line 256
    segments_list,      \* line 257
    segment_count,      \* line 258
    last_segment_text,  \* line 259
    repetition_count,   \* line 260
    last_log,           \* which "Skipping ..." line the last iteration printed
    engine_error,       \* the engine raised an exception during the run
    result,             \* the dictionary returned by transcribe_audio
    n_input,            \* SpecNorm: the string given to the rewrites
    n_text,             \* SpecNorm: full_text between the rewrites
    n_stage,            \* SpecNorm: number of rewrites applied in this pass
    n_pass,             \* SpecNorm: 1 or 2 (second application)
    n_first,            \* SpecNorm: result of the first application
    words,              \* SpecDedup: line 311
    cleaned_words,      \* SpecDedup: line 312
    i,                  \* SpecDedup: line 313
    d_emitted,          \* SpecDedup: positions of words copied to cleaned_words
    d_stage             \* SpecDedup: loop / done

pipeVars == <<pc, stream, full_text, segments_list, segment_count,
              last_segment_text, repetition_count, last_log, engine_error, result>>
normVars == <<n_input, n_text, n_stage, n_pass, n_first>>
dedupVars == <<words, cleaned_words, i, d_emitted, d_stage>>
vars == <<pipeVars, normVars, dedupVars>>

----------------------------------------------------------------------------
(* Bounds *)
MaxSegments == 3
MaxStrLen == 5
MaxWords == 10

----------------------------------------------------------------------------
(* Characters *)
AR_COMMA == "U+060C"
AR_SEMI == "U+061B"

Whitespace == {" ", "\t"}

\* the class [.,!?;:،؛] of the rewrites at lines 307-308
NormPunct == {".", ",", "!", "?", ";", ":", AR_COMMA, AR_SEMI}

\* variant: line 293 tests the character class of lines 307-308
SpacingPunctAsNormPunct == NormPunct

\* the string '.،,!?؛' at line 293
SpacingPunct == {".", AR_COMMA, ",", "!", "?", AR_SEMI}

IsWs(c) == c \in Whitespace

\* str.lower() on the characters the model uses
LowerChar(c) == IF c = "H" THEN "h" ELSE IF c = "A" THEN "a" ELSE c

Lower(s) == [k \in 1..Len(s) |-> LowerChar(s[k])]

SetMin(S) == CHOOSE x \in S : \A y \in S : x <= y
SetMax(S) == CHOOSE x \in S : \A y \in S : x >= y

\* str.strip()
Strip(s) ==
    LET keep == {k \in 1..Len(s) : ~IsWs(s[k])}
    IN IF keep = {} THEN <<>> ELSE SubSeq(s, SetMin(keep), SetMax(keep))

\* first index >= k of s holding a non-whitespace character, Len(s)+1 if none
WsRunEnd(s, k) ==
    LET stop == {j \in k..Len(s) : ~IsWs(s[j])}
    IN IF stop = {} THEN Len(s) + 1 ELSE SetMin(stop)

\* first index >= k of s holding a whitespace character, Len(s)+1 if none
WordEnd(s, k) ==
    LET stop == {j \in k..Len(s) : IsWs(s[j])}
    IN IF stop = {} THEN Len(s) + 1 ELSE SetMin(stop)

RECURSIVE SplitFrom(_, _)
SplitFrom(s, k) ==
    IF k > Len(s) THEN <<>>
    ELSE IF IsWs(s[k]) THEN SplitFrom(s, WsRunEnd(s, k))
    ELSE <<SubSeq(s, k, WordEnd(s, k) - 1)>> \o SplitFrom(s, WordEnd(s, k))

\* str.split() without arguments
Split(s) == SplitFrom(s, 1)

RECURSIVE Join(_)
\* ' '.join(ws)
Join(ws) ==
    IF Len(ws) = 0 THEN <<>>
    ELSE IF Len(ws) = 1 THEN ws[1]
    ELSE ws[1] \o <<" ">> \o Join(Tail(ws))

Range(f) == {f[k] : k \in DOMAIN f}

\* t in s
IsSubstring(t, s) ==
    \E j \in 0..(Len(s) - Len(t)) : SubSeq(s, j + 1, j + Len(t)) = t

\* s[-n:]
LastChars(s, n) ==
    IF n = 0 \/ Len(s) <= n THEN s ELSE SubSeq(s, Len(s) - n + 1, Len(s))

----------------------------------------------------------------------------
(* The per-segment checks, lines 262-290 *)
MinSegmentChars == 2
MinDistinctChars == 3
SimThresholdNum == 7
SimThresholdDen == 10
WindowMultiplier == 3

\* variant: only the length test of line 266, the test of line 270 is missing
QualityRejectLengthOnly(segment_text) ==
    \/ Len(segment_text) = 0
    \/ Len(segment_text) < MinSegmentChars

\* lines 266-271: the two "continue" of the quality filter
QualityReject(segment_text) ==
    \/ Len(segment_text) = 0
    \/ Len(segment_text) < MinSegmentChars
    \/ Cardinality(Range(segment_text)) < MinDistinctChars

\* variant: .lower() is missing at lines 277-278
TokenSetCaseSensitive(text) == Range(Split(text))

\* lines 277-278
TokenSet(text) == Range(Split(Lower(text)))

\* line 280, as the pair numerator / denominator
Similarity(last_words, current_words) ==
    [num |-> Cardinality(last_words \cap current_words),
     den |-> Cardinality(last_words \cup current_words)]

\* variant: similarity >= 0.7
AboveOrEqualThreshold(sim) == sim.num * SimThresholdDen >= SimThresholdNum * sim.den

\* line 281: similarity > 0.7
AboveThreshold(sim) == sim.num * SimThresholdDen > SimThresholdNum * sim.den

\* lines 275-284
NearDuplicate(last_text, segment_text) ==
    /\ Len(last_text) > 0
    /\ LET last_words == TokenSet(last_text)
           current_words == TokenSet(segment_text)
       IN /\ last_words # {}
          /\ current_words # {}
          /\ AboveThreshold(Similarity(last_words, current_words))

\* variant: the whole of full_text is searched, not its last part
ExactRepetitionAnywhere(text, segment_text) == IsSubstring(segment_text, text)

\* line 287
ExactRepetition(text, segment_text) ==
    IsSubstring(segment_text, LastChars(text, Len(segment_text) * WindowMultiplier))

\* variant: "end" is filled from segment.start
SegmentEntryStartTwice(segment, segment_text) ==
    [text |-> segment_text, start |-> segment.start, end |-> segment.start]

\* lines 297-301
SegmentEntry(segment, segment_text) ==
    [text |-> segment_text, start |-> segment.start, end |-> segment.end]

\* lines 293-296
AppendText(text, segment_text) ==
    IF Len(text) > 0 /\ segment_text[1] \notin SpacingPunct
    THEN text \o <<" ">> \o segment_text
    ELSE text \o segment_text

----------------------------------------------------------------------------
(* The three rewrites, lines 306-308 *)
RECURSIVE CollapseFrom(_, _)
CollapseFrom(s, k) ==
    IF k > Len(s) THEN <<>>
    ELSE IF IsWs(s[k]) THEN <<" ">> \o CollapseFrom(s, WsRunEnd(s, k))
    ELSE <<s[k]>> \o CollapseFrom(s, k + 1)

\* line 306: re.sub(r'\s+', ' ', full_text).strip()
NormalizeSpaces(s) == Strip(CollapseFrom(s, 1))

RECURSIVE FixFrom(_, _)
FixFrom(s, k) ==
    IF k > Len(s) THEN <<>>
    ELSE IF IsWs(s[k])
         THEN LET e == WsRunEnd(s, k)
              IN IF e <= Len(s) /\ s[e] \in NormPunct
                 THEN <<s[e]>> \o FixFrom(s, e + 1)
                 ELSE SubSeq(s, k, e - 1) \o FixFrom(s, e)
         ELSE <<s[k]>> \o FixFrom(s, k + 1)

\* line 307: re.sub(r'\s+([.,!?;:،؛])', r'\1', full_text)
FixPunctuationSpacing(s) == FixFrom(s, 1)

RECURSIVE AddFrom(_, _)
AddFrom(s, k) ==
    IF k > Len(s) THEN <<>>
    ELSE IF s[k] \in NormPunct /\ k < Len(s) /\ ~IsWs(s[k + 1])
         THEN <<s[k], " ", s[k + 1]>> \o AddFrom(s, k + 2)
         ELSE <<s[k]>> \o AddFrom(s, k + 1)

RECURSIVE AddAnyFrom(_, _)
AddAnyFrom(s, k) ==
    IF k > Len(s) THEN <<>>
    ELSE IF s[k] \in NormPunct /\ k < Len(s)
         THEN <<s[k], " ", s[k + 1]>> \o AddAnyFrom(s, k + 2)
         ELSE <<s[k]>> \o AddAnyFrom(s, k + 1)

\* variant: the second group is (.) instead of ([^\s])
AddSpaceAfterPunctuationAnyChar(s) == AddAnyFrom(s, 1)

\* line 308: re.sub(r'([.,!?;:،؛])([^\s])', r'\1 \2', full_text)
AddSpaceAfterPunctuation(s) == AddFrom(s, 1)

\* lines 306-308 together
Normalize(s) == AddSpaceAfterPunctuation(FixPunctuationSpacing(NormalizeSpaces(s)))

----------------------------------------------------------------------------
(* The phrase loop, lines 311-332; the index i is 0-based as in the code *)
MaxPhraseLen == 5
MinPhraseLen == 2

\* the phrase lengths from lo to hi that repeat at pos
RepeatingLengths(ws, pos, lo, hi) ==
    {n \in lo..hi :
        /\ pos + n * 2 <= Len(ws)
        /\ Join(SubSeq(ws, pos + 1, pos + n))
             = Join(SubSeq(ws, pos + n + 1, pos + n * 2))}

\* variant: range(2, 6), shorter phrases are tried first
FindRepetitionShortestFirst(ws, pos, phrase_len) ==
    LET hits == RepeatingLengths(ws, pos, MinPhraseLen, phrase_len)
    IN IF hits = {} THEN 0 ELSE SetMin(hits)

\* variant: range(5, 0, -1), a repeated single word is a phrase too
FindRepetitionSingleWord(ws, pos, phrase_len) ==
    LET hits == RepeatingLengths(ws, pos, MinPhraseLen - 1, phrase_len)
    IN IF hits = {} THEN 0 ELSE SetMax(hits)

RECURSIVE FindRepetition(_, _, _)
\* lines 317-326: the phrase_len at which the inner loop breaks, 0 if it does not
FindRepetition(ws, pos, phrase_len) ==
    IF phrase_len < MinPhraseLen THEN 0
    ELSE IF /\ pos + phrase_len * 2 <= Len(ws)
            /\ Join(SubSeq(ws, pos + 1, pos + phrase_len))
                 = Join(SubSeq(ws, pos + phrase_len + 1, pos + phrase_len * 2))
         THEN phrase_len
         ELSE FindRepetition(ws, pos, phrase_len - 1)

\* variant: line 324 is i += phrase_len, the second occurrence is scanned again
DedupIterationSingleAdvance(ws, pos) ==
    LET found == FindRepetition(ws, pos, MaxPhraseLen)
    IN IF found > 0
       THEN [emit |-> SubSeq(ws, pos + 1, pos + found),
             from |-> pos, count |-> found, next |-> pos + found]
       ELSE [emit |-> <<ws[pos + 1]>>,
             from |-> pos, count |-> 1, next |-> pos + 1]

\* one iteration of the while loop at line 314
DedupIteration(ws, pos) ==
    LET found == FindRepetition(ws, pos, MaxPhraseLen)
    IN IF found > 0
       THEN [emit |-> SubSeq(ws, pos + 1, pos + found),
             from |-> pos, count |-> found, next |-> pos + found * 2]
       ELSE [emit |-> <<ws[pos + 1]>>,
             from |-> pos, count |-> 1, next |-> pos + 1]

RECURSIVE DedupFrom(_, _)
DedupFrom(ws, pos) ==
    IF pos >= Len(ws) THEN <<>>
    ELSE LET it == DedupIteration(ws, pos)
         IN it.emit \o DedupFrom(ws, it.next)

\* lines 311-330: cleaned_words for the given words
PhraseDedup(ws) == DedupFrom(ws, 0)

----------------------------------------------------------------------------
(* The segments the engine may yield (segment.text, before strip) *)
Pool == <<
    <<"h","e","l","l","o"," ","w","o","r","l","d">>,
    <<" ","H","e","l","l","o"," ","w","o","r","l","d">>,
    <<"g","o","o","d","b","y","e">>,
    <<"a","a","a","a">>,
    <<" ","a","b"," ">>,
    <<" ","w","o","r","l","d">>,
    <<"!","o","k">>,
    <<";","o","k">>,
    <<"o","k"," ","g","o"," ","o","k"," ","g","o">>,
    <<"a"," ","b"," ","c"," ","d"," ","e"," ","f"," ","g"," ","h"," ","i">>,
    <<"a"," ","b"," ","c"," ","d"," ","e"," ","f"," ","g"," ","j">>
  >>

HelloWorld == <<"h","e","l","l","o"," ","w","o","r","l","d">>
Goodbye == <<"g","o","o","d","b","y","e">>

NoResult == [returned |-> FALSE]

\* variant: wordCount is len(full_text.split(' ')), which is 1 for ""
SuccessResultSplitOnSpace(text, segs) ==
    [success |-> TRUE,
     transcript |-> text,
     wordCount |-> Len(Split(text)) + (IF Len(text) = 0 THEN 1 ELSE 0),
     characterCount |-> Len(text),
     language |-> "detected",
     segments |-> segs]

\* lines 339-346
SuccessResult(text, segs) ==
    [success |-> TRUE,
     transcript |-> text,
     wordCount |-> Len(Split(text)),
     characterCount |-> Len(text),
     language |-> "detected",
     segments |-> segs]

\* variant: the handler returns what was collected before the exception
OnExceptionPartial ==
    [success |-> TRUE,
     transcript |-> full_text,
     wordCount |-> Len(Split(full_text)),
     characterCount |-> Len(full_text),
     language |-> "detected",
     segments |-> segments_list]

\* lines 348-357
OnException ==
    [success |-> FALSE, error |-> "Transcription failed", details |-> "traceback"]

\* lines 108-112
FileNotFoundResult == [success |-> FALSE, error |-> "File not found"]

\* lines 305-332: the text after the rewrites and the phrase loop
CleanText(text) == Join(PhraseDedup(Split(Normalize(text))))

----------------------------------------------------------------------------
(* Spec: one run of transcribe_audio *)
NormIdle ==
    /\ n_input = <<>> /\ n_text = <<>> /\ n_stage = "idle"
    /\ n_pass = 0 /\ n_first = <<>>

DedupIdle ==
    /\ words = <<>> /\ cleaned_words = <<>> /\ i = 0
    /\ d_emitted = <<>> /\ d_stage = "idle"

Init ==
    /\ pc = "Start"
    /\ stream = <<>>
    /\ full_text = <<>>
    /\ segments_list = <<>>
    /\ segment_count = 0
    /\ last_segment_text = <<>>
    /\ repetition_count = 0
    /\ last_log = "none"
    /\ engine_error = FALSE
    /\ result = NoResult
    /\ NormIdle
    /\ DedupIdle

\* lines 108-112: the input file does not exist
FileNotFound ==
    /\ pc = "Start"
    /\ pc' = "Failed"
    /\ result' = FileNotFoundResult
    /\ UNCHANGED <<stream, full_text, segments_list, segment_count,
                   last_segment_text, repetition_count, last_log, engine_error>>
    /\ UNCHANGED <<normVars, dedupVars>>

\* lines 114-260: the model loads, model.transcribe returns the lazy stream
StartTranscription ==
    /\ pc = "Start"
    /\ pc' = "Running"
    /\ UNCHANGED <<stream, full_text, segments_list, segment_count,
                   last_segment_text, repetition_count, last_log, engine_error,
                   result>>
    /\ UNCHANGED <<normVars, dedupVars>>

\* the engine raises while loading or while yielding (caught at line 348)
EngineRaise ==
    /\ pc \in {"Start", "Running"}
    /\ engine_error' = TRUE
    /\ pc' = "Failed"
    /\ result' = OnException
    /\ UNCHANGED <<stream, full_text, segments_list, segment_count,
                   last_segment_text, repetition_count, last_log>>
    /\ UNCHANGED <<normVars, dedupVars>>

\* variant: the test of line 287 runs before the test of lines 275-284
ProcessSegmentExactFirst(segment) ==
    /\ pc = "Running"
    /\ Len(stream) < MaxSegments
    /\ stream' = Append(stream, segment)
    /\ LET segment_text == Strip(segment.text)
       IN IF QualityReject(segment_text)
          THEN /\ last_log' = "none"
               /\ UNCHANGED <<full_text, segments_list, segment_count,
                              last_segment_text, repetition_count>>
          ELSE IF ExactRepetition(full_text, segment_text)
          THEN /\ repetition_count' = repetition_count + 1
               /\ last_log' = "Skipping exact repetition"
               /\ UNCHANGED <<full_text, segments_list, segment_count,
                              last_segment_text>>
          ELSE IF NearDuplicate(last_segment_text, segment_text)
          THEN /\ repetition_count' = repetition_count + 1
               /\ last_log' = "Skipping repetitive segment"
               /\ UNCHANGED <<full_text, segments_list, segment_count,
                              last_segment_text>>
          ELSE /\ full_text' = AppendText(full_text, segment_text)
               /\ segments_list' = Append(segments_list,
                      SegmentEntry(segment, segment_text))
               /\ segment_count' = segment_count + 1
               /\ last_segment_text' = segment_text
               /\ last_log' = "none"
               /\ UNCHANGED repetition_count
    /\ UNCHANGED <<pc, engine_error, result>>
    /\ UNCHANGED <<normVars, dedupVars>>

\* variant: last_segment_text is also set when a repetition is skipped
ProcessSegmentLastSeen(segment) ==
    /\ pc = "Running"
    /\ Len(stream) < MaxSegments
    /\ stream' = Append(stream, segment)
    /\ LET segment_text == Strip(segment.text)
       IN IF QualityReject(segment_text)
          THEN /\ last_log' = "none"
               /\ UNCHANGED <<full_text, segments_list, segment_count,
                              last_segment_text, repetition_count>>
          ELSE IF NearDuplicate(last_segment_text, segment_text)
          THEN /\ repetition_count' = repetition_count + 1
               /\ last_log' = "Skipping repetitive segment"
               /\ last_segment_text' = segment_text
               /\ UNCHANGED <<full_text, segments_list, segment_count>>
          ELSE IF ExactRepetition(full_text, segment_text)
          THEN /\ repetition_count' = repetition_count + 1
               /\ last_log' = "Skipping exact repetition"
               /\ last_segment_text' = segment_text
               /\ UNCHANGED <<full_text, segments_list, segment_count>>
          ELSE /\ full_text' = AppendText(full_text, segment_text)
               /\ segments_list' = Append(segments_list,
                      SegmentEntry(segment, segment_text))
               /\ segment_count' = segment_count + 1
               /\ last_segment_text' = segment_text
               /\ last_log' = "none"
               /\ UNCHANGED repetition_count
    /\ UNCHANGED <<pc, engine_error, result>>
    /\ UNCHANGED <<normVars, dedupVars>>

\* variant: line 288 is missing, an exact repetition is not counted
ProcessSegmentExactUncounted(segment) ==
    /\ pc = "Running"
    /\ Len(stream) < MaxSegments
    /\ stream' = Append(stream, segment)
    /\ LET segment_text == Strip(segment.text)
       IN IF QualityReject(segment_text)
          THEN /\ last_log' = "none"
               /\ UNCHANGED <<full_text, segments_list, segment_count,
                              last_segment_text, repetition_count>>
          ELSE IF NearDuplicate(last_segment_text, segment_text)
          THEN /\ repetition_count' = repetition_count + 1
               /\ last_log' = "Skipping repetitive segment"
               /\ UNCHANGED <<full_text, segments_list, segment_count,
                              last_segment_text>>
          ELSE IF ExactRepetition(full_text, segment_text)
          THEN /\ repetition_count' = repetition_count
               /\ last_log' = "Skipping exact repetition"
               /\ UNCHANGED <<full_text, segments_list, segment_count,
                              last_segment_text>>
          ELSE /\ full_text' = AppendText(full_text, segment_text)
               /\ segments_list' = Append(segments_list,
                      SegmentEntry(segment, segment_text))
               /\ segment_count' = segment_count + 1
               /\ last_segment_text' = segment_text
               /\ last_log' = "none"
               /\ UNCHANGED repetition_count
    /\ UNCHANGED <<pc, engine_error, result>>
    /\ UNCHANGED <<normVars, dedupVars>>

\* lines 262-303: one iteration of the for loop on the next segment
ProcessSegment(segment) ==
    /\ pc = "Running"
    /\ Len(stream) < MaxSegments
    /\ stream' = Append(stream, segment)
    /\ LET segment_text == Strip(segment.text)
       IN IF QualityReject(segment_text)
          THEN /\ last_log' = "none"
               /\ UNCHANGED <<full_text, segments_list, segment_count,
                              last_segment_text, repetition_count>>
          ELSE IF NearDuplicate(last_segment_text, segment_text)
          THEN /\ repetition_count' = repetition_count + 1
               /\ last_log' = "Skipping repetitive segment"
               /\ UNCHANGED <<full_text, segments_list, segment_count,
                              last_segment_text>>
          ELSE IF ExactRepetition(full_text, segment_text)
          THEN /\ repetition_count' = repetition_count + 1
               /\ last_log' = "Skipping exact repetition"
               /\ UNCHANGED <<full_text, segments_list, segment_count,
                              last_segment_text>>
          ELSE /\ full_text' = AppendText(full_text, segment_text)
               /\ segments_list' = Append(segments_list,
                      SegmentEntry(segment, segment_text))
               /\ segment_count' = segment_count + 1
               /\ last_segment_text' = segment_text
               /\ last_log' = "none"
               /\ UNCHANGED repetition_count
    /\ UNCHANGED <<pc, engine_error, result>>
    /\ UNCHANGED <<normVars, dedupVars>>

\* the segment the engine yields next: text from Pool, timestamps by position
NextSegment ==
    \E k \in 1..Len(Pool) :
        ProcessSegment([text |-> Pool[k],
                        start |-> Len(stream),
                        end |-> Len(stream) + 1])

\* variant: a run without accepted segments is reported as an error
FinishFailsWhenEmpty ==
    /\ pc = "Running"
    /\ IF segment_count = 0
       THEN /\ pc' = "Failed"
            /\ result' = [success |-> FALSE, error |-> "No speech detected"]
            /\ UNCHANGED full_text
       ELSE /\ pc' = "Completed"
            /\ full_text' = CleanText(full_text)
            /\ result' = SuccessResult(CleanText(full_text), segments_list)
    /\ UNCHANGED <<stream, segments_list, segment_count, last_segment_text,
                   repetition_count, last_log, engine_error>>
    /\ UNCHANGED <<normVars, dedupVars>>

\* lines 305-346: the stream is exhausted; clean up and return
Finish ==
    /\ pc = "Running"
    /\ pc' = "Completed"
    /\ full_text' = CleanText(full_text)
    /\ result' = SuccessResult(CleanText(full_text), segments_list)
    /\ UNCHANGED <<stream, segments_list, segment_count, last_segment_text,
                   repetition_count, last_log, engine_error>>
    /\ UNCHANGED <<normVars, dedupVars>>

Next ==
    \/ FileNotFound
    \/ StartTranscription
    \/ EngineRaise
    \/ NextSegment
    \/ Finish

Spec == Init /\ [][Next]_vars

\* the function is sequential and the stream is finite: a run that can take a
\* step takes one
SpecFair == Spec /\ WF_vars(Next)

----------------------------------------------------------------------------
(* SpecNorm: lines 306-308 applied to any string, then applied again *)
PipeIdle ==
    /\ pc = "idle" /\ stream = <<>> /\ full_text = <<>> /\ segments_list = <<>>
    /\ segment_count = 0 /\ last_segment_text = <<>> /\ repetition_count = 0
    /\ last_log = "none" /\ engine_error = FALSE /\ result = NoResult

NormAlphabet == {"a", " ", "\t", ",", "!"}

Strings(alphabet, n) == UNION {[1..m -> alphabet] : m \in 0..n}

StrayInput == <<"h","e","l","l","o"," ",","," ","w","o","r","l","d"," ","!">>
StrayOutput == <<"h","e","l","l","o",","," ","w","o","r","l","d","!">>

NormInputs == Strings(NormAlphabet, MaxStrLen) \cup {StrayInput}

InitNorm ==
    /\ n_input \in NormInputs
    /\ n_text = n_input
    /\ n_stage = 0
    /\ n_pass = 1
    /\ n_first = <<>>
    /\ PipeIdle
    /\ DedupIdle

\* line 306
RewriteSpaces ==
    /\ n_stage = 0
    /\ n_text' = NormalizeSpaces(n_text)
    /\ n_stage' = 1
    /\ UNCHANGED <<n_input, n_pass, n_first, pipeVars, dedupVars>>

\* line 307
RewriteBeforePunctuation ==
    /\ n_stage = 1
    /\ n_text' = FixPunctuationSpacing(n_text)
    /\ n_stage' = 2
    /\ UNCHANGED <<n_input, n_pass, n_first, pipeVars, dedupVars>>

\* line 308
RewriteAfterPunctuation ==
    /\ n_stage = 2
    /\ n_text' = AddSpaceAfterPunctuation(n_text)
    /\ n_stage' = 3
    /\ UNCHANGED <<n_input, n_pass, n_first, pipeVars, dedupVars>>

\* the output of the first application is given to the rewrites again
ApplyAgain ==
    /\ n_stage = 3
    /\ n_pass = 1
    /\ n_first' = n_text
    /\ n_pass' = 2
    /\ n_stage' = 0
    /\ UNCHANGED <<n_input, n_text, pipeVars, dedupVars>>

NextNorm ==
    \/ RewriteSpaces
    \/ RewriteBeforePunctuation
    \/ RewriteAfterPunctuation
    \/ ApplyAgain

SpecNorm == InitNorm /\ [][NextNorm]_vars

----------------------------------------------------------------------------
(* SpecDedup: lines 311-332 on any word sequence *)
WordA == <<"a">>
WordB == <<"b">>
The == <<"t","h","e">>
Cat == <<"c","a","t">>
Sat == <<"s","a","t">>
On == <<"o","n">>
Mat == <<"m","a","t">>

CatInput == <<The, Cat, Sat, The, Cat, Sat, On, The, Mat>>
CatOutput == <<The, Cat, Sat, On, The, Mat>>

\* phrases of MinPhraseLen..MaxPhraseLen words, and each of them three times
Phrases ==
    {ph \in Strings({WordA, WordB}, MaxPhraseLen) : Len(ph) >= MinPhraseLen}
    \cup {SubSeq(<<The, Cat, Sat, On, Mat>>, 1, n) : n \in MinPhraseLen..MaxPhraseLen}

TripledPhrases == {ph \o ph \o ph : ph \in Phrases}

DedupInputs ==
    Strings({WordA, WordB}, MaxWords) \cup {CatInput} \cup TripledPhrases

InitDedup ==
    /\ words \in DedupInputs
    /\ cleaned_words = <<>>
    /\ i = 0
    /\ d_emitted = <<>>
    /\ d_stage = "loop"
    /\ PipeIdle
    /\ NormIdle

\* lines 314-330: one iteration of the while loop
DedupLoop ==
    /\ d_stage = "loop"
    /\ i < Len(words)
    /\ LET it == DedupIteration(words, i)
       IN /\ cleaned_words' = cleaned_words \o it.emit
          /\ d_emitted' = d_emitted \o [k \in 1..it.count |-> it.from + k]
          /\ i' = it.next
    /\ UNCHANGED <<words, d_stage, pipeVars, normVars>>

\* variant: wordCount is taken from words, the list before the loop
DedupExitCountsInput ==
    /\ d_stage = "loop"
    /\ i >= Len(words)
    /\ d_stage' = "done"
    /\ full_text' = Join(cleaned_words)
    /\ result' = [SuccessResult(Join(cleaned_words), segments_list)
                      EXCEPT !.wordCount = Len(words)]
    /\ UNCHANGED <<pc, stream, segments_list, segment_count, last_segment_text,
                   repetition_count, last_log, engine_error>>
    /\ UNCHANGED <<words, cleaned_words, i, d_emitted, normVars>>

\* line 314 is false: the loop ends, lines 332-346 join the words and return
DedupExit ==
    /\ d_stage = "loop"
    /\ i >= Len(words)
    /\ d_stage' = "done"
    /\ full_text' = Join(cleaned_words)
    /\ result' = SuccessResult(Join(cleaned_words), segments_list)
    /\ UNCHANGED <<pc, stream, segments_list, segment_count, last_segment_text,
                   repetition_count, last_log, engine_error>>
    /\ UNCHANGED <<words, cleaned_words, i, d_emitted, normVars>>

NextDedup ==
    \/ DedupLoop
    \/ DedupExit

SpecDedup == InitDedup /\ [][NextDedup]_vars

----------------------------------------------------------------------------
(* Properties *)

\* the segment consumed by the step, after strip (line 263)
StepConsumes == Len(stream') = Len(stream) + 1
StepSegment == stream'[Len(stream')]
StepText == Strip(StepSegment.text)

StreamTexts == [k \in 1..Len(stream) |-> stream[k].text]

\* C1: applying the three rewrites to their own output changes nothing:
\* after the second application the text equals the result of the first.
NormalizeIdempotent ==
    (n_pass = 2 /\ n_stage = 3) => n_text = n_first

\* a second application has ended on an input that the first one rewrote and
\* that holds punctuation next to whitespace
NormalizeIdempotentWitness ==
    /\ n_pass = 2 /\ n_stage = 3
    /\ n_first # n_input
    /\ \E k \in 1..(Len(n_input) - 1) :
          IsWs(n_input[k]) /\ n_input[k + 1] \in {",", "!"}
    /\ \E k \in 1..(Len(n_input) - 1) :
          n_input[k] \in {",", "!"} /\ n_input[k + 1] = "a"

HasAdjacentRepeat(w) ==
    \E p \in 0..Len(w) : \E n \in 2..5 :
        /\ p + 2 * n <= Len(w)
        /\ SubSeq(w, p + 1, p + n) = SubSeq(w, p + n + 1, p + 2 * n)

\* C2: a word sequence with no position where 2 to 5 words are immediately
\* followed by the same words leaves the phrase loop unchanged.
NoRepeatUnchanged ==
    (d_stage = "done" /\ ~HasAdjacentRepeat(words)) => cleaned_words = words

\* the loop has ended on a sequence of 6 or more words without such a repeat,
\* in which one word follows itself
NoRepeatUnchangedWitness ==
    /\ d_stage = "done"
    /\ Len(words) >= 6
    /\ ~HasAdjacentRepeat(words)
    /\ \E k \in 1..(Len(words) - 1) : words[k] = words[k + 1]
    /\ cleaned_words = words

C3_QualityPassed(t) == Len(t) >= 2 /\ Cardinality(Range(t)) >= 3

\* Jaccard similarity of the lowercase token sets strictly above 7/10
C3_JaccardAbove(t, last) ==
    LET a == TokenSet(last)
        b == TokenSet(t)
    IN 10 * Cardinality(a \cap b) > 7 * Cardinality(a \cup b)

C3_Rule ==
    (StepConsumes /\ Len(last_segment_text) > 0 /\ C3_QualityPassed(StepText))
    => IF C3_JaccardAbove(StepText, last_segment_text)
       THEN /\ last_log' = "Skipping repetitive segment"
            /\ segments_list' = segments_list
            /\ full_text' = full_text
            /\ segment_count' = segment_count
       ELSE last_log' # "Skipping repetitive segment"

C3_Example ==
    (pc = "Completed" /\ StreamTexts = <<HelloWorld, HelloWorld, Goodbye>>)
    => /\ Len(result.segments) = 2
       /\ segment_count = 2
       /\ result.transcript = HelloWorld \o <<" ">> \o Goodbye

\* C3: a quality-passed candidate whose token set has Jaccard similarity above
\* 0.7 with the last accepted text is skipped as repetitive and not appended;
\* at 0.7 or below this check does not skip it.  The stream "hello world",
\* "hello world", "goodbye" ends with 2 segments and "hello world goodbye".
NearDuplicateRejected == [][C3_Rule]_vars /\ []C3_Example

\* the run over "hello world", "hello world", "goodbye" has completed
NearDuplicateRejectedWitness ==
    /\ pc = "Completed"
    /\ StreamTexts = <<HelloWorld, HelloWorld, Goodbye>>
    /\ repetition_count = 1
    /\ result.transcript = HelloWorld \o <<" ">> \o Goodbye

\* the phrase lengths 2..5 that fit twice from i and repeat there
C4_Matches ==
    {n \in 2..5 :
        /\ i + 2 * n <= Len(words)
        /\ SubSeq(words, i + 1, i + n) = SubSeq(words, i + n + 1, i + 2 * n)}

C4_Step ==
    (d_stage = "loop" /\ i < Len(words))
    => IF C4_Matches # {}
       THEN LET n == SetMax(C4_Matches)
            IN /\ cleaned_words' = cleaned_words \o SubSeq(words, i + 1, i + n)
               /\ i' = i + 2 * n
       ELSE /\ cleaned_words' = cleaned_words \o <<words[i + 1]>>
            /\ i' = i + 1

C4_Example ==
    (d_stage = "done" /\ words = CatInput) => cleaned_words = CatOutput

\* C4: every iteration of the phrase loop emits the longest phrase of 2..5
\* words that repeats at i once and moves to i + 2L, or else emits words[i]
\* and moves to i + 1; "the cat sat the cat sat on the mat" gives
\* "the cat sat on the mat".
GreedyLongestFirst == [][C4_Step]_vars /\ []C4_Example

\* the loop has ended on "the cat sat the cat sat on the mat"
GreedyLongestFirstWitness ==
    /\ d_stage = "done"
    /\ words = CatInput
    /\ cleaned_words = CatOutput
    /\ d_emitted = <<1, 2, 3, 7, 8, 9>>

\* C5: a completed run with no accepted segment returns success with an
\* empty transcript, wordCount 0, characterCount 0 and no segments.
EmptyResultIsSuccess ==
    (pc = "Completed" /\ Len(segments_list) = 0)
    => /\ result.success = TRUE
       /\ result.transcript = <<>>
       /\ result.wordCount = 0
       /\ result.characterCount = 0
       /\ result.segments = <<>>

\* a run has completed after the quality filter dropped two or more segments
EmptyResultIsSuccessWitness ==
    /\ pc = "Completed"
    /\ Len(stream) >= 2
    /\ Len(segments_list) = 0
    /\ result.success = TRUE

C6_Dropped(t) == Len(t) < 2 \/ Cardinality(Range(t)) < 3

C6_Step ==
    (StepConsumes /\ C6_Dropped(StepText))
    => /\ last_segment_text' = last_segment_text
       /\ full_text' = full_text
       /\ segments_list' = segments_list
       /\ segment_count' = segment_count
       /\ repetition_count' = repetition_count
       /\ last_log' = "none"

C6_Output ==
    /\ \A k \in 1..Len(segments_list) : ~C6_Dropped(segments_list[k].text)
    /\ pc = "Completed" =>
          \A k \in 1..Len(result.segments) : ~C6_Dropped(result.segments[k].text)

\* C6: a segment whose trimmed text has fewer than 2 characters or fewer than
\* 3 distinct characters changes none of the five state fields, prints no
\* repetition line, and no such text is among the collected or returned segments.
QualityGate == [][C6_Step]_vars /\ []C6_Output

\* "aaaa" arrived right after an accepted segment
QualityGateWitness ==
    /\ pc = "Running"
    /\ Len(stream) >= 2
    /\ Strip(stream[Len(stream)].text) = <<"a", "a", "a", "a">>
    /\ segment_count = Len(stream) - 1

\* C7: after the three rewrites no whitespace character stands immediately
\* before a punctuation mark of the class, and "hello , world !" has become
\* "hello, world!".
NoSpaceBeforePunctuation ==
    (n_pass = 1 /\ n_stage = 3)
    => /\ \A k \in 1..(Len(n_text) - 1) :
             ~(IsWs(n_text[k]) /\ n_text[k + 1] \in NormPunct)
       /\ n_input = StrayInput => n_text = StrayOutput

RECURSIVE C9_WordsIn(_)
C9_WordsIn(segs) ==
    IF Len(segs) = 0 THEN 0
    ELSE Len(Split(segs[1].text)) + C9_WordsIn(Tail(segs))

C9_Returned ==
    pc = "Completed"
    => /\ result.success = TRUE
       /\ result.segments = segments_list
       /\ Len(result.segments) = segment_count
       /\ \A k \in 1..Len(result.segments) :
             LET r == result.segments[k]
             IN /\ r.start + 1 \in 1..Len(stream)
                /\ stream[r.start + 1].start = r.start
                /\ stream[r.start + 1].end = r.end
                /\ Strip(stream[r.start + 1].text) = r.text
                /\ k > 1 => result.segments[k - 1].start < r.start

C9_Step ==
    /\ StepConsumes =>
          IF segment_count' = segment_count + 1
          THEN segments_list' = Append(segments_list,
                   [text |-> StepText,
                    start |-> StepSegment.start,
                    end |-> StepSegment.end])
          ELSE segments_list' = segments_list /\ segment_count' = segment_count
    /\ (pc = "Running" /\ pc' = "Completed") => segments_list' = segments_list

\* C9: the returned segments are the accepted ones: one record per accepted
\* segment, in stream order, with the trimmed text and the start and end of
\* the stream element it came from, as many as segment_count; the clean-up of
\* the text does not touch the list.
SegmentsAreAccepted == [][C9_Step]_vars /\ []C9_Returned

\* a completed run that rejected a segment and whose transcript has fewer
\* words than its segments
SegmentsAreAcceptedWitness ==
    /\ pc = "Completed"
    /\ segment_count >= 1
    /\ segment_count < Len(stream)
    /\ result.wordCount < C9_WordsIn(result.segments)

RECURSIVE C10_Joined(_)
C10_Joined(segs) ==
    IF Len(segs) = 0 THEN <<>>
    ELSE LET t == segs[Len(segs)].text
             before == C10_Joined(SubSeq(segs, 1, Len(segs) - 1))
         IN IF Len(segs) = 1 \/ t[1] \in {".", ",", "!", "?", AR_COMMA, AR_SEMI}
            THEN before \o t
            ELSE before \o <<" ">> \o t

C10_RunningText ==
    pc \in {"Start", "Running"} => full_text = C10_Joined(segments_list)

C10_Grows == Len(segments_list') >= Len(segments_list)

\* C10: while segments are processed the number of accepted segments never
\* decreases and full_text is their texts in order, each but the first
\* preceded by one space unless it starts with . , ! ? or the Arabic comma or
\* semicolon.
RunningTextInvariant == [][C10_Grows]_vars /\ []C10_RunningText

\* three accepted segments, one starting with "!" and one with ";"
RunningTextInvariantWitness ==
    /\ pc = "Running"
    /\ Len(segments_list) >= 3
    /\ \E k \in 2..Len(segments_list) : segments_list[k].text[1] = "!"
    /\ \E k \in 2..Len(segments_list) : segments_list[k].text[1] = ";"

\* the last 3 * len(t) characters of full_text
RecentText(t) ==
    LET n == 3 * Len(t)
    IN IF Len(full_text) <= n THEN full_text
       ELSE SubSeq(full_text, Len(full_text) - n + 1, Len(full_text))

C11_Near(t) == Len(last_segment_text) > 0 /\ C3_JaccardAbove(t, last_segment_text)
C11_Exact(t) == IsSubstring(t, RecentText(t))

C11_Step ==
    (StepConsumes /\ C3_QualityPassed(StepText)
        /\ (C11_Near(StepText) \/ C11_Exact(StepText)))
    => /\ repetition_count' = repetition_count + 1
       /\ segment_count' = segment_count
       /\ last_segment_text' = last_segment_text
       /\ full_text' = full_text
       /\ segments_list' = segments_list
       /\ (C11_Near(StepText) /\ C11_Exact(StepText))
            => last_log' = "Skipping repetitive segment"

\* C11: a segment skipped as a repetition adds exactly 1 to repetition_count
\* and changes no other field; one that is both a near duplicate and an exact
\* substring is counted once and reported as a repetitive segment.
RepetitionRejectFrame == [][C11_Step]_vars

\* a candidate that met both conditions has just been skipped
RepetitionRejectFrameWitness ==
    /\ pc = "Running"
    /\ Len(stream) >= 2
    /\ segment_count = 1
    /\ repetition_count = 1
    /\ last_log = "Skipping repetitive segment"
    /\ IsSubstring(Strip(stream[Len(stream)].text), full_text)

\* C12: last_segment_text is empty while nothing has been accepted and is
\* otherwise the text of the last accepted segment, whatever was rejected since.
LastAcceptedTracked ==
    last_segment_text =
        IF Len(segments_list) = 0 THEN <<>>
        ELSE segments_list[Len(segments_list)].text

\* one accepted segment followed by a quality rejection and a repetition
LastAcceptedTrackedWitness ==
    /\ pc = "Running"
    /\ Len(stream) >= 3
    /\ segment_count = 1
    /\ repetition_count = 1
    /\ segments_list[1].start = 0
    /\ last_segment_text # Strip(stream[Len(stream)].text)
    /\ last_segment_text # Strip(stream[Len(stream) - 1].text)

C13_Accepted ==
    /\ segments_list' = Append(segments_list,
           [text |-> StepText, start |-> StepSegment.start, end |-> StepSegment.end])
    /\ segment_count' = segment_count + 1
    /\ repetition_count' = repetition_count
    /\ last_log' = "none"

C13_Step ==
    (StepConsumes /\ C3_QualityPassed(StepText)
        /\ last_log' # "Skipping repetitive segment")
    => /\ IF IsSubstring(StepText, RecentText(StepText))
          THEN /\ last_log' = "Skipping exact repetition"
               /\ segments_list' = segments_list
               /\ segment_count' = segment_count
          ELSE C13_Accepted
       /\ Len(full_text) = 0 => C13_Accepted

\* C13: a quality-passed candidate that was not skipped as a near duplicate is
\* skipped as an exact repetition exactly when its text occurs in the last
\* 3 * len(text) characters of full_text, and is accepted otherwise; with an
\* empty full_text it is accepted.
ExactSubstringRule == [][C13_Step]_vars

\* a candidate found in the recent text, but not a near duplicate, was skipped
ExactSubstringRuleWitness ==
    /\ pc = "Running"
    /\ last_log = "Skipping exact repetition"
    /\ repetition_count >= 1
    /\ LET t == Strip(stream[Len(stream)].text)
       IN /\ IsSubstring(t, RecentText(t))
          /\ ~C3_JaccardAbove(t, last_segment_text)

\* C14: after the three rewrites every punctuation mark of the class is the
\* last character or is immediately followed by whitespace.
PunctuationFollowedBySpace ==
    (n_pass = 1 /\ n_stage = 3)
    => \A k \in 1..Len(n_text) :
          n_text[k] \in NormPunct => (k = Len(n_text) \/ IsWs(n_text[k + 1]))

\* w is a phrase of 2 to 5 words three times in a row
C15_IsTriple(w) ==
    /\ Len(w) % 3 = 0
    /\ (Len(w) \div 3) \in 2..5
    /\ LET ph == SubSeq(w, 1, Len(w) \div 3) IN w = ph \o ph \o ph

C15_Phrase == SubSeq(words, 1, Len(words) \div 3)

\* ph is a shorter phrase repeated two or more times
C15_IsPower(ph) ==
    \E d \in 1..(Len(ph) - 1) :
        /\ Len(ph) % d = 0
        /\ \A k \in (d + 1)..Len(ph) : ph[k] = ph[k - d]

\* C15 as stated: every phrase of 2 to 5 words repeated three times in a row
\* comes out of the loop repeated twice.
TripleGivesDouble ==
    (d_stage = "done" /\ C15_IsTriple(words))
    => cleaned_words = C15_Phrase \o C15_Phrase

\* C15 amended: a phrase of 2 to 5 words repeated three times comes out
\* repeated twice exactly when the phrase is not itself a shorter phrase
\* repeated and holds no adjacent repeat of 2 to 5 words.
TripleGivesDoubleIfPlain ==
    (d_stage = "done" /\ C15_IsTriple(words))
    => (cleaned_words = C15_Phrase \o C15_Phrase
          <=> (~C15_IsPower(C15_Phrase) /\ ~HasAdjacentRepeat(C15_Phrase)))

\* the loop has ended on five different words three times in a row
TripleGivesDoubleIfPlainWitness ==
    /\ d_stage = "done"
    /\ words = <<The, Cat, Sat, On, Mat, The, Cat, Sat, On, Mat, The, Cat, Sat, On, Mat>>
    /\ cleaned_words = <<The, Cat, Sat, On, Mat, The, Cat, Sat, On, Mat>>

RECURSIVE IsSubsequence(_, _)
\* a is b with zero or more elements deleted
IsSubsequence(a, b) ==
    IF Len(a) = 0 THEN TRUE
    ELSE IF Len(b) = 0 THEN FALSE
    ELSE IF a[1] = b[1] THEN IsSubsequence(Tail(a), Tail(b))
    ELSE IsSubsequence(a, Tail(b))

\* C19: the words kept by the phrase loop are the input words with some
\* deleted, in order and never more of them, and the returned wordCount is the
\* number of kept words, those of the returned transcript.
OnlyDeletesWords ==
    /\ IsSubsequence(cleaned_words, words)
    /\ Len(cleaned_words) <= Len(words)
    /\ d_stage = "done" =>
          /\ result.transcript = Join(cleaned_words)
          /\ Split(result.transcript) = cleaned_words
          /\ result.wordCount = Len(cleaned_words)

\* the loop has ended after deleting words from "the cat sat the cat sat on
\* the mat"
OnlyDeletesWordsWitness ==
    /\ d_stage = "done"
    /\ words = CatInput
    /\ Len(cleaned_words) = 6
    /\ result.wordCount = 6

Terminal == {"Completed", "Failed"}

C16_Stays == pc \in Terminal => pc' = pc

C16_Outcome ==
    /\ pc = "Completed" => (~engine_error /\ result.success = TRUE)
    /\ pc = "Failed" =>
          /\ result.success = FALSE
          /\ engine_error \/ (result = FileNotFoundResult /\ Len(stream) = 0)

\* C16: every run leaves Start and Running and reaches Completed or Failed,
\* which it never leaves; it is Completed unless the engine raised or the
\* input file was missing, whatever number of segments was rejected.
RunTerminates ==
    /\ <>(pc \in Terminal)
    /\ [][C16_Stays]_vars
    /\ []C16_Outcome

\* a run completed although a segment was dropped by the quality filter and
\* another was skipped as a repetition
RunTerminatesWitness ==
    /\ pc = "Completed"
    /\ result.success = TRUE
    /\ Len(stream) >= 3
    /\ segment_count = 1
    /\ repetition_count = 1

RECURSIVE C17_QualityDropped(_)
\* number of stream elements the quality filter dropped
C17_QualityDropped(segs) ==
    IF Len(segs) = 0 THEN 0
    ELSE (IF C6_Dropped(Strip(segs[1].text)) THEN 1 ELSE 0)
         + C17_QualityDropped(Tail(segs))

\* C17 as stated: accepted segments plus counted rejections are all segments
\* processed so far.
EveryRejectionCounted ==
    segment_count + repetition_count = Len(stream)

\* C17 amended: repetition_count counts the repetition rejections only;
\* accepted plus counted segments are the processed ones less those the
\* quality filter dropped.
RepetitionsCounted ==
    segment_count + repetition_count = Len(stream) - C17_QualityDropped(stream)

\* one segment accepted, one dropped by the quality filter, one skipped as an
\* exact repetition
RepetitionsCountedWitness ==
    /\ pc = "Running"
    /\ Len(stream) >= 3
    /\ segment_count = 1
    /\ repetition_count = 1
    /\ C17_QualityDropped(stream) = 1
    /\ last_log = "Skipping exact repetition"

C18_Tokens(t) == Range(Split(Lower(t)))

C18_Pair(k) ==
    LET a == C18_Tokens(segments_list[k - 1].text)
        b == C18_Tokens(segments_list[k].text)
    IN [num |-> Cardinality(a \cap b), den |-> Cardinality(a \cup b)]

\* C18: any two segments accepted one after the other have a Jaccard
\* similarity of at most 0.7 and different texts.
NoAdjacentNearDuplicates ==
    \A k \in 2..Len(segments_list) :
        /\ 10 * C18_Pair(k).num <= 7 * C18_Pair(k).den
        /\ segments_list[k].text # segments_list[k - 1].text

\* two accepted segments with similarity exactly 0.7 and a rejected segment
\* between them
NoAdjacentNearDuplicatesWitness ==
    /\ Len(segments_list) = 2
    /\ segments_list[2].start = segments_list[1].start + 2
    /\ 10 * C18_Pair(2).num = 7 * C18_Pair(2).den

====
